---- MODULE Spec2Model ----
(***************************************************************************)
(* Model of vllm/distributed/communication_op.py: the collective           *)
(* operations over a process group (all-reduce, all-gather, gather,        *)
(* broadcast, broadcast of an object list, broadcast of a tensor dict) and *)
(* the pipeline-parallel point-to-point transport (send_next_rank,         *)
(* recv_prev_rank and their sliced variants).                              *)
(*                                                                         *)
(* Every rank is a process.  A call runs on its rank up to the first       *)
(* primitive of torch.distributed it issues, blocks there, and goes on     *)
(* when the primitive completes, which takes every rank of the group       *)
(* (a collective) or the matching peer (a send and its recv).              *)
(***************************************************************************)
EXTENDS Integers, Sequences, FiniteSets, TLC

\* ------------------------------------------------------------- bounds
\* global ranks are 0..MaxRank
MaxRank == 2
\* every axis of an input tensor has a size in 1..MaxDimSize
MaxDimSize == 2
\* input tensors have 1..MaxTensorRank axes
MaxTensorRank == 2
\* a tensor dict has at most MaxKeys entries
MaxKeys == 2
\* a pipeline batch holds at most MaxBatch tensors
MaxBatch == 2
\* the leading axis of a tensor of a pipeline batch has a size in 1..MaxLead
MaxLead == 3
\* the tensor-parallel groups of the pipeline stages have 1..MaxTP ranks
MaxTP == 2

Ranks == 0..MaxRank

\* ------------------------------------------------------------ tensors
\* A tensor is its shape and its elements in row-major order (the logical
\* order of a contiguous torch.Tensor).  Python's None is a record of its own.
None == [kind |-> "none"]

\* dtype and device (cuda or host) are carried along; every operation below
\* keeps those of its (first) operand, as torch does
TensorOf(dtype, cuda, shape, data) ==
    [kind |-> "tensor", dtype |-> dtype, cuda |-> cuda, shape |-> shape, data |-> data]

Tensor(shape, data) == TensorOf("f32", TRUE, shape, data)

Like(t, shape, data) == TensorOf(t.dtype, t.cuda, shape, data)

RECURSIVE Prod(_)
Prod(s) == IF s = <<>> THEN 1 ELSE Head(s) * Prod(Tail(s))

\* Tensor.numel()
Numel(t) == Prod(t.shape)

\* Tensor.dim()
NDim(t) == Len(t.shape)

\* the multi-index (0-based, one entry per axis) of the k-th element (0-based)
Unravel(k, shape) ==
    [a \in 1..Len(shape) |->
        (k \div Prod(SubSeq(shape, a + 1, Len(shape)))) % shape[a]]

RECURSIVE RavelFrom(_, _, _)
RavelFrom(idx, shape, a) ==
    IF a > Len(shape) THEN 0
    ELSE idx[a] * Prod(SubSeq(shape, a + 1, Len(shape))) + RavelFrom(idx, shape, a + 1)

\* the position (0-based) of the element at multi-index idx
Ravel(idx, shape) == RavelFrom(idx, shape, 1)

\* the element of t at multi-index idx
At(t, idx) == t.data[Ravel(idx, t.shape) + 1]

\* Tensor.reshape(shape) of a tensor read in its logical order; a shape of
\* another element count is torch's RuntimeError
ReshapeOK(t, shape) == Prod(shape) = Numel(t)
Reshape(t, shape) == Like(t, shape, t.data)

\* a reshape to (n, size // n) that drops the elements left over
ReshapeRowsOK_floored(t, n) == n > 0

\* Tensor.reshape(n, -1): the second size is inferred, and the element count
\* has to be a multiple of n
ReshapeRowsOK(t, n) == n > 0 /\ Numel(t) % n = 0
ReshapeRows(t, n) == Like(t, <<n, Numel(t) \div n>>, t.data)

\* Tensor.movedim(0, d), 0 <= d < dim(): axis 0 goes to position d, the axes
\* 1..d move one place to the front
MoveDim0(t, d) ==
    LET n == NDim(t)
        shape == [a \in 1..n |->
                    IF a - 1 < d THEN t.shape[a + 1]
                    ELSE IF a - 1 = d THEN t.shape[1]
                    ELSE t.shape[a]]
        src(idx) == [a \in 1..n |->
                    IF a = 1 THEN idx[d + 1]
                    ELSE IF a - 1 <= d THEN idx[a - 1]
                    ELSE idx[a]]
    IN  Like(t, shape, [k \in 1..Prod(shape) |-> At(t, src(Unravel(k - 1, shape)))])

\* Tensor.narrow(d, start, length)
Narrow(t, d, start, length) ==
    LET shape == [t.shape EXCEPT ![d + 1] = length]
        src(idx) == [idx EXCEPT ![d + 1] = @ + start]
    IN  Like(t, shape, [k \in 1..Prod(shape) |-> At(t, src(Unravel(k - 1, shape)))])

\* t[i] for a tensor of at least one axis
Select0(t, i) ==
    LET shape == Tail(t.shape)
        n == Prod(shape)
    IN  Like(t, shape, SubSeq(t.data, i * n + 1, (i + 1) * n))

\* torch.chunk(t, chunks, dim=d): pieces of ceil(size / chunks) along d, the
\* last one shorter, and fewer than chunks pieces when size allows no more
Chunk(t, chunks, d) ==
    LET size == t.shape[d + 1]
        each == (size + chunks - 1) \div chunks
        n == IF each = 0 THEN chunks ELSE (size + each - 1) \div each
    IN  [j \in 1..n |->
            Narrow(t, d, (j - 1) * each,
                   IF j * each <= size THEN each ELSE size - (j - 1) * each)]

RECURSIVE SumSizes(_, _, _)
SumSizes(ts, d, upto) ==
    IF upto = 0 THEN 0 ELSE ts[upto].shape[d + 1] + SumSizes(ts, d, upto - 1)

\* torch.cat(ts, dim=d) of a non-empty list of tensors that agree on every
\* axis but d
Cat(ts, d) ==
    LET shape == [ts[1].shape EXCEPT ![d + 1] = SumSizes(ts, d, Len(ts))]
        piece(x) == CHOOSE i \in 1..Len(ts) :
                        /\ SumSizes(ts, d, i - 1) <= x
                        /\ x < SumSizes(ts, d, i)
        elem(idx) == LET i == piece(idx[d + 1])
                     IN  At(ts[i], [idx EXCEPT ![d + 1] = @ - SumSizes(ts, d, i - 1)])
    IN  Like(ts[1], shape, [k \in 1..Prod(shape) |-> elem(Unravel(k - 1, shape))])

RECURSIVE Flatten(_)
Flatten(ts) == IF ts = <<>> THEN <<>> ELSE Head(ts).data \o Flatten(Tail(ts))

\* what all_gather_into_tensor writes into an output of shape
\* (len(ts),) + ts[1].shape: the contributions one after the other
Stacked(ts) == Like(ts[1], <<Len(ts)>> \o ts[1].shape, Flatten(ts))

\* elementwise sum of a non-empty list of tensors of one shape
RECURSIVE SumData(_, _)
SumData(ts, k) == IF ts = <<>> THEN 0 ELSE Head(ts).data[k] + SumData(Tail(ts), k)

Summed(ts) == Like(ts[1], ts[1].shape, [k \in 1..Numel(ts[1]) |-> SumData(ts, k)])

\* what an element of a torch.empty buffer holds before anything is written
Garbage == 0 - 1

\* torch.empty(shape, dtype=dtype, device="cuda")
Empty(dtype, shape) == TensorOf(dtype, TRUE, shape, [k \in 1..Prod(shape) |-> Garbage])

\* ------------------------------------------------------- python values
Obj(v) == [kind |-> "obj", v |-> v]

List(items) == [kind |-> "list", items |-> items]

\* a dict keeps its keys in insertion order
Dict(items) == [kind |-> "dict", items |-> items]

Item(key, val) == [key |-> key, val |-> val]

\* TensorMetadata = namedtuple("TensorMetadata", ["dtype", "size"])
TensorMetadata(dtype, size) == [kind |-> "meta", dtype |-> dtype, size |-> size]

Error(what) == [kind |-> "error", what |-> what]

Keys(d) == [i \in 1..Len(d.items) |-> d.items[i].key]

HasKey(d, key) == \E i \in 1..Len(d.items) : d.items[i].key = key

\* d[key]
DictGet(d, key) == d.items[CHOOSE i \in 1..Len(d.items) : d.items[i].key = key].val

\* d[key] = val: a new key goes last, a known one keeps its place
DictSet(d, key, val) ==
    IF HasKey(d, key)
    THEN Dict([i \in 1..Len(d.items) |->
                 IF d.items[i].key = key THEN Item(key, val) ELSE d.items[i]])
    ELSE Dict(Append(d.items, Item(key, val)))

\* ------------------------------------------------------------- state
VARIABLES
    group,          \* the ranks of the process group the calls are on
    customOK,       \* custom_all_reduce takes the tensor (size, topology)
    pyncclOn,       \* is_pynccl_enabled_for_all_reduce()
    prog,           \* per rank: the call it makes and its arguments
    pc,             \* per rank: where it is in its call
    pending,        \* per rank: the primitive it is blocked in
    log,            \* per rank: the primitives and backends it invoked
    ret,            \* per rank: what the call returned or raised
    obj_list,       \* per rank: the list handed to broadcast_object_list
    tensor_dict,    \* per rank: broadcast_tensor_dict's local tensor_dict
    async_handles,  \* per rank: the handles of its async broadcasts
    method,         \* get_pp_communication_method()
    buffer,         \* per rank: the tensor its send or recv is given
    combined_tensor, \* per rank: the pipeline transport's local combined_tensor
    script          \* per rank: the calls its caller makes one after another

vars == <<group, customOK, pyncclOn, prog, pc, pending, log, ret, obj_list,
          tensor_dict, async_handles, method, buffer, combined_tensor, script>>

\* what no call of the layer changes
topology == <<group, customOK, pyncclOn, prog, method, script>>

\* a caller's calls and the index of the one it makes next
Script(calls) == [calls |-> calls, next |-> 1]

NoScript == Script(<<>>)

dict_state == <<obj_list, tensor_dict, async_handles>>

pp_state == <<buffer, combined_tensor>>

NoRoot == 0 - 1

\* one invocation of a primitive of torch.distributed or of a reduction
\* backend: its name, its root (src or dst) and what it says of its buffer
Prim(name, root, desc) == [prim |-> name, root |-> root, desc |-> desc]

NoPrim == Prim("none", NoRoot, <<>>)

Desc(t) == <<t.dtype, t.shape>>

\* get_tensor_model_parallel_world_size(), torch.distributed.get_world_size(group)
WorldSize == Cardinality(group)

RECURSIVE Sorted(_)
Sorted(S) ==
    IF S = {} THEN <<>>
    ELSE LET m == CHOOSE a \in S : \A b \in S : a <= b
         IN  <<m>> \o Sorted(S \ {m})

\* torch.distributed.get_process_group_ranks(group)
GroupRanks == Sorted(group)

\* the inputs of the group's ranks, in rank order
Inputs == [i \in 1..WorldSize |-> prog[GroupRanks[i]].input]

\* a rank leaves the step it is in: with a value, with an error, or blocked
\* in the last of the primitives it issued
Finish(r, newpc, val, issued) ==
    /\ pc' = [pc EXCEPT ![r] = newpc]
    /\ ret' = [ret EXCEPT ![r] = val]
    /\ log' = [log EXCEPT ![r] = @ \o issued]
    /\ pending' = [pending EXCEPT ![r] =
                      IF newpc = "blocked" THEN issued[Len(issued)] ELSE NoPrim]

Returns(r, val) == Finish(r, "returned", val, <<>>)

Fails(r, what) == Finish(r, "failed", Error(what), <<>>)

\* the primitive issued and the call gone on without waiting for it
Blocks_not(r, issued) ==
    /\ pc' = [pc EXCEPT ![r] = "returned"]
    /\ ret' = [ret EXCEPT ![r] = None]
    /\ log' = [log EXCEPT ![r] = @ \o issued]
    /\ pending' = [pending EXCEPT ![r] = NoPrim]

Blocks(r, issued) == Finish(r, "blocked", None, issued)

Calls(r, op) == r \in group /\ pc[r] = "idle" /\ prog[r].op = op

\* a rendezvous that gives up on the ranks whose call has failed
AllIn_but_failed(name) ==
    /\ \E r \in group : pc[r] = "blocked"
    /\ \A r \in group : pc[r] = "failed" \/ (pc[r] = "blocked" /\ pending[r].prim \in name)
    /\ \A r, q \in group : pc[r] = "blocked" /\ pc[q] = "blocked" => pending[r] = pending[q]

\* every rank of the group is blocked in the primitive named, with one root
AllIn(name) ==
    /\ \A r \in group : pc[r] = "blocked" /\ pending[r].prim \in name
    /\ \A r, q \in group : pending[r] = pending[q]

\* the primitive completes on every rank of the group at once, rank r going
\* on to return val[r]
Completes(val) ==
    /\ pc' = [r \in Ranks |-> IF r \in group THEN "returned" ELSE pc[r]]
    /\ ret' = [r \in Ranks |-> IF r \in group THEN val[r] ELSE ret[r]]
    /\ pending' = [r \in Ranks |-> IF r \in group THEN NoPrim ELSE pending[r]]
    /\ UNCHANGED log

\* the bypass that misses the single-rank group
bypass_wrong(world_size) == world_size < 1

\* "Bypass the function if we are using only 1 GPU."
bypass(world_size) == world_size = 1

\* -------------------------------------------------------- all-reduce
\* custom_all_reduce(input_) is not None
custom_all_reduce == customOK

is_pynccl_enabled_for_all_reduce == pyncclOn

ReducePrims == {"custom_all_reduce", "pynccl_utils.all_reduce", "all_reduce"}

\* the dispatch with the else of the pynccl branch lost: the generic
\* all_reduce runs after pynccl has reduced
all_reduce_backends_fallthrough(input_) ==
    IF custom_all_reduce
    THEN <<Prim("custom_all_reduce", NoRoot, <<"reduced">>)>>
    ELSE <<Prim("custom_all_reduce", NoRoot, <<"declined">>)>> \o
         ( IF is_pynccl_enabled_for_all_reduce
           THEN <<Prim("pynccl_utils.all_reduce", NoRoot, Desc(input_))>>
           ELSE <<>> ) \o
         <<Prim("all_reduce", NoRoot, Desc(input_))>>

\* the backends tensor_model_parallel_all_reduce invokes past the bypass
all_reduce_backends(input_) ==
    IF custom_all_reduce
    THEN <<Prim("custom_all_reduce", NoRoot, <<"reduced">>)>>
    ELSE <<Prim("custom_all_reduce", NoRoot, <<"declined">>)>> \o
         ( IF is_pynccl_enabled_for_all_reduce
           THEN <<Prim("pynccl_utils.all_reduce", NoRoot, Desc(input_))>>
           ELSE <<Prim("all_reduce", NoRoot, Desc(input_))>> )

tensor_model_parallel_all_reduce(r) ==
    /\ Calls(r, "all_reduce")
    /\ IF bypass(WorldSize)
       THEN Returns(r, prog[r].input)
       ELSE Blocks(r, all_reduce_backends(prog[r].input))
    /\ UNCHANGED <<topology, dict_state, pp_state>>

\* the reduction itself, in whichever backend the ranks are in
all_reduce_done ==
    /\ AllIn(ReducePrims)
    /\ Completes([r \in group |-> Summed(Inputs)])
    /\ UNCHANGED <<topology, dict_state, pp_state>>

\* -------------------------------------------------------- all-gather
\* the assertion with its upper bound off by one
valid_dim_inclusive(input_, dim) == -NDim(input_) <= dim /\ dim <= NDim(input_)

\* assert -input_.dim() <= dim < input_.dim()
valid_dim(input_, dim) == -NDim(input_) <= dim /\ dim < NDim(input_)

\* "Convert negative dim to positive."
positive_dim(input_, dim) == IF dim < 0 THEN dim + NDim(input_) ELSE dim

\* the reshape without the movedim before it
all_gather_output_unmoved(output_tensor, input_, dim, world_size) ==
    LET d == IF dim < 0 THEN dim + NDim(input_) ELSE dim
        input_size == input_.shape
    IN  Reshape(output_tensor,
                SubSeq(input_size, 1, d) \o <<world_size * input_size[d + 1]>>
                \o SubSeq(input_size, d + 2, Len(input_size)))

\* the reshape of the gathered (world_size,) + input_size tensor
all_gather_output(output_tensor, input_, dim, world_size) ==
    LET d == positive_dim(input_, dim)
        input_size == input_.shape
        moved == MoveDim0(output_tensor, d)
    IN  Reshape(moved, SubSeq(input_size, 1, d) \o <<world_size * input_size[d + 1]>>
                       \o SubSeq(input_size, d + 2, Len(input_size)))

tensor_model_parallel_all_gather(r) ==
    /\ Calls(r, "all_gather")
    /\ IF bypass(WorldSize)
       THEN Returns(r, prog[r].input)
       ELSE IF ~valid_dim(prog[r].input, prog[r].dim)
       THEN Fails(r, "InvalidArgument")
       ELSE Blocks(r, <<Prim("all_gather_into_tensor", NoRoot, Desc(prog[r].input))>>)
    /\ UNCHANGED <<topology, dict_state, pp_state>>

all_gather_done ==
    /\ AllIn({"all_gather_into_tensor"})
    /\ Completes([r \in group |->
                    all_gather_output(Stacked(Inputs), prog[r].input,
                                      prog[r].dim, WorldSize)])
    /\ UNCHANGED <<topology, dict_state, pp_state>>

\* ------------------------------------------------------------ gather
\* the concatenation along the first axis whatever dim says
gather_output_dim0(rank, dst, gather_list, input_, dim) ==
    IF rank = dst THEN Cat(gather_list, 0) ELSE None

\* what rank (its global rank) returns once the gather has filled gather_list
gather_output(rank, dst, gather_list, input_, dim) ==
    IF rank = dst THEN Cat(gather_list, positive_dim(input_, dim)) ELSE None

tensor_model_parallel_gather(r) ==
    /\ Calls(r, "gather")
    /\ IF bypass(WorldSize)
       THEN Returns(r, prog[r].input)
       ELSE IF ~valid_dim(prog[r].input, prog[r].dim)
       THEN Fails(r, "InvalidArgument")
       ELSE Blocks(r, <<Prim("gather", prog[r].root, Desc(prog[r].input))>>)
    /\ UNCHANGED <<topology, dict_state, pp_state>>

gather_done ==
    /\ AllIn({"gather"})
    /\ \A r \in group : pending[r].root \in group
    /\ Completes([r \in group |->
                    gather_output(r, prog[r].root, Inputs, prog[r].input, prog[r].dim)])
    /\ UNCHANGED <<topology, dict_state, pp_state>>

\* torch.distributed.gather itself turns down a dst outside the group
gather_refused(r) ==
    /\ r \in group /\ pc[r] = "blocked"
    /\ pending[r].prim = "gather" /\ pending[r].root \notin group
    /\ Fails(r, "BackendFailure")
    /\ UNCHANGED <<topology, dict_state, pp_state>>

\* --------------------------------------------------------- broadcast
\* assert src in ranks
src_in_ranks(src, ranks) == \E i \in 1..Len(ranks) : ranks[i] = src

\* broadcast with the bypass moved before the assertion on src
broadcast_bypass_first(r) ==
    /\ Calls(r, "broadcast")
    /\ IF bypass(WorldSize)
       THEN Returns(r, prog[r].input)
       ELSE IF ~src_in_ranks(prog[r].root, GroupRanks)
       THEN Fails(r, "InvalidArgument")
       ELSE Blocks(r, <<Prim("broadcast", prog[r].root, Desc(prog[r].input))>>)
    /\ UNCHANGED <<topology, dict_state, pp_state>>

broadcast(r) ==
    /\ Calls(r, "broadcast")
    /\ IF ~src_in_ranks(prog[r].root, GroupRanks)
       THEN Fails(r, "InvalidArgument")
       ELSE IF bypass(WorldSize)
       THEN Returns(r, prog[r].input)
       ELSE Blocks(r, <<Prim("broadcast", prog[r].root, Desc(prog[r].input))>>)
    /\ UNCHANGED <<topology, dict_state, pp_state>>

\* the broadcast is in place: input_ comes back holding the source's data
broadcast_done ==
    /\ AllIn({"broadcast"})
    /\ Completes([r \in group |->
                    Like(prog[r].input, prog[r].input.shape,
                         prog[pending[r].root].input.data)])
    /\ UNCHANGED <<topology, dict_state, pp_state>>

broadcast_object_list(r) ==
    /\ Calls(r, "broadcast_object_list")
    /\ IF ~src_in_ranks(prog[r].root, GroupRanks)
       THEN Fails(r, "InvalidArgument") /\ UNCHANGED obj_list
       ELSE IF bypass(WorldSize)
       THEN Returns(r, prog[r].input) /\ UNCHANGED obj_list
       ELSE /\ Blocks(r, <<Prim("broadcast_object_list", prog[r].root, <<>>)>>)
            /\ obj_list' = [obj_list EXCEPT ![r] = prog[r].input.items]
    /\ UNCHANGED <<topology, tensor_dict, async_handles, pp_state>>

\* torch.distributed.broadcast_object_list: every rank's list takes the
\* source's objects; broadcast_object_list returns the list, and
\* broadcast_tensor_dict goes on with the metadata it holds
object_list_done ==
    /\ AllIn({"broadcast_object_list"})
    /\ LET got(r) == obj_list[prog[r].root]
           whole(r) == prog[r].op = "broadcast_object_list"
       IN  /\ obj_list' = [r \in Ranks |-> IF r \in group THEN got(r) ELSE obj_list[r]]
           /\ pc' = [r \in Ranks |->
                       IF r \notin group THEN pc[r]
                       ELSE IF whole(r) THEN "returned" ELSE "got_meta"]
           /\ ret' = [r \in Ranks |->
                       IF r \in group /\ whole(r) THEN List(got(r)) ELSE ret[r]]
    /\ pending' = [r \in Ranks |-> IF r \in group THEN NoPrim ELSE pending[r]]
    /\ UNCHANGED <<topology, log, tensor_dict, async_handles, pp_state>>

\* ------------------------------------------------ broadcast_tensor_dict
\* the source's walk over tensor_dict.items(): a tensor gives its
\* TensorMetadata, anything else goes into the list as it is
metadata_list(d) ==
    [i \in 1..Len(d.items) |->
        Item(d.items[i].key,
             IF d.items[i].val.kind = "tensor"
             THEN TensorMetadata(d.items[i].val.dtype, d.items[i].val.shape)
             ELSE d.items[i].val)]

\* the source's checks without the is_cuda assertion of the loop
source_args_ok_any_device(d) == d.kind = "dict"

\* assert isinstance(tensor_dict, dict), and assert value.is_cuda of each tensor
source_args_ok(d) ==
    /\ d.kind = "dict"
    /\ \A i \in 1..Len(d.items) :
          d.items[i].val.kind = "tensor" => d.items[i].val.cuda

broadcast_tensor_dict(r) ==
    /\ Calls(r, "broadcast_tensor_dict")
    /\ IF ~src_in_ranks(prog[r].root, GroupRanks)
       THEN Fails(r, "InvalidArgument") /\ UNCHANGED obj_list
       ELSE IF bypass(WorldSize)
       THEN Returns(r, prog[r].input) /\ UNCHANGED obj_list
       ELSE IF r = prog[r].root /\ ~source_args_ok(prog[r].input)
       THEN Fails(r, "InvalidArgument") /\ UNCHANGED obj_list
       ELSE /\ Blocks(r, <<Prim("broadcast_object_list", prog[r].root, <<>>)>>)
            /\ obj_list' = [obj_list EXCEPT ![r] =
                               IF r = prog[r].root
                               THEN <<List(metadata_list(prog[r].input))>>
                               ELSE <<None>>]
    /\ tensor_dict' = [tensor_dict EXCEPT ![r] = prog[r].input]
    /\ UNCHANGED <<topology, async_handles, pp_state>>

IsMeta(item) == item.val.kind = "meta"

Handle(key) == [key |-> key, state |-> "inflight"]

\* the receiver's dict with every buffer of torch.empty's default dtype
RECURSIVE received_dict_default_dtype(_, _)
received_dict_default_dtype(ml, d) ==
    IF ml = <<>> THEN d
    ELSE received_dict_default_dtype(Tail(ml),
            DictSet(d, Head(ml).key,
                    IF IsMeta(Head(ml))
                    THEN Empty("f32", Head(ml).val.size)
                    ELSE Head(ml).val))

\* the receiver's dict: a buffer for every TensorMetadata, the value itself
\* for anything else, in the order of the list
RECURSIVE received_dict(_, _)
received_dict(ml, d) ==
    IF ml = <<>> THEN d
    ELSE received_dict(Tail(ml),
            DictSet(d, Head(ml).key,
                    IF IsMeta(Head(ml))
                    THEN Empty(Head(ml).val.dtype, Head(ml).val.size)
                    ELSE Head(ml).val))

\* the entries of the source's list that its second loop reaches: the loop
\* stops where tensor_dict[key] is no tensor, which torch.distributed.broadcast
\* turns down with a TypeError
source_reach(ml, d) ==
    LET bad == {i \in 1..Len(ml) : IsMeta(ml[i]) /\ DictGet(d, ml[i].key).kind # "tensor"}
    IN  IF bad = {} THEN Len(ml) ELSE (CHOOSE i \in bad : \A j \in bad : i <= j) - 1

\* after the metadata: one async broadcast per TensorMetadata entry
issue_broadcasts(r) ==
    /\ r \in group /\ pc[r] = "got_meta"
    /\ LET src == prog[r].root
           meta == obj_list[r][1]
       IN  IF r = src
           THEN LET ml == meta.items
                    reach == source_reach(ml, tensor_dict[r])
                    sent == SelectSeq(SubSeq(ml, 1, reach), IsMeta)
                IN  /\ async_handles' = [async_handles EXCEPT ![r] =
                                            [k \in 1..Len(sent) |-> Handle(sent[k].key)]]
                    /\ log' = [log EXCEPT ![r] = @ \o
                                  [k \in 1..Len(sent) |->
                                      Prim("broadcast", src,
                                           Desc(DictGet(tensor_dict[r], sent[k].key)))]]
                    /\ pc' = [pc EXCEPT ![r] = IF reach = Len(ml) THEN "wait" ELSE "failed"]
                    /\ ret' = [ret EXCEPT ![r] =
                                  IF reach = Len(ml) THEN None ELSE Error("TypeError")]
                    /\ UNCHANGED tensor_dict
           ELSE IF meta = None
           THEN /\ pc' = [pc EXCEPT ![r] = "failed"]
                /\ ret' = [ret EXCEPT ![r] = Error("AssertionError")]
                /\ UNCHANGED <<log, tensor_dict, async_handles>>
           ELSE LET ml == meta.items
                    sent == SelectSeq(ml, IsMeta)
                IN  /\ tensor_dict' = [tensor_dict EXCEPT ![r] = received_dict(ml, Dict(<<>>))]
                    /\ async_handles' = [async_handles EXCEPT ![r] =
                                            [k \in 1..Len(sent) |-> Handle(sent[k].key)]]
                    /\ log' = [log EXCEPT ![r] = @ \o
                                  [k \in 1..Len(sent) |->
                                      Prim("broadcast", src,
                                           <<sent[k].val.dtype, sent[k].val.size>>)]]
                    /\ pc' = [pc EXCEPT ![r] = "wait"]
                    /\ UNCHANGED ret
    /\ UNCHANGED <<topology, pending, obj_list, pp_state>>

\* the k-th async broadcast of the call completes once every rank of the
\* group has issued its k-th: the receivers' buffers take the source's data
async_broadcast_done(k) ==
    /\ \A r \in group :
          /\ Len(async_handles[r]) >= k
          /\ async_handles[r][k].state = "inflight"
    /\ \E src \in group :
          /\ \A r \in group : prog[r].root = src
          /\ LET from == DictGet(tensor_dict[src], async_handles[src][k].key)
                 into(r) == DictGet(tensor_dict[r], async_handles[r][k].key)
             IN  tensor_dict' = [r \in Ranks |->
                     IF r \in group /\ r # src
                     THEN DictSet(tensor_dict[r], async_handles[r][k].key,
                                  Like(into(r), into(r).shape, from.data))
                     ELSE tensor_dict[r]]
    /\ async_handles' = [r \in Ranks |->
            IF r \in group
            THEN [async_handles[r] EXCEPT ![k].state = "done"]
            ELSE async_handles[r]]
    /\ UNCHANGED <<topology, pc, pending, log, ret, obj_list, pp_state>>

\* for async_handle in async_handles: async_handle.wait(); return tensor_dict
waited(handles) == \A k \in 1..Len(handles) : handles[k].state = "done"

wait_and_return(r) ==
    /\ r \in group /\ pc[r] = "wait"
    /\ waited(async_handles[r])
    /\ pc' = [pc EXCEPT ![r] = "returned"]
    /\ ret' = [ret EXCEPT ![r] = tensor_dict[r]]
    /\ UNCHANGED <<topology, pending, log, dict_state, pp_state>>

\* ------------------------------------------------- pipeline transport
\* Two adjacent pipeline stages, each a tensor-parallel group of WorldSize
\* ranks: group holds the sending stage's ranks 0..WorldSize-1, and the
\* receiving stage's are the WorldSize ranks after them.  The pipeline
\* group of a rank pairs it with the rank of its tensor-parallel index in
\* the other stage.
get_tensor_model_parallel_rank(r) == r % WorldSize

get_pipeline_model_parallel_next_rank(r) == r + WorldSize

get_pipeline_model_parallel_prev_rank(r) == r - WorldSize

ReceivingGroup == {r + WorldSize : r \in group}

\* the flattened buffer without the [0]: the whole payload
first_element_whole(t) == Like(t, <<Numel(t)>>, t.data)

\* combined_tensor.reshape(-1)[0]
first_element(t) == Like(t, <<>>, <<t.data[1]>>)

\* torch.ones(shape, dtype=dtype)
Ones(dtype, shape) == TensorOf(dtype, TRUE, shape, [k \in 1..Prod(shape) |-> 1])

\* no shard at all: every rank sends the whole buffer, flattened
sliced_whole(tensor, tensor_parallel_rank, world_size) ==
    Like(tensor, <<Numel(tensor)>>, tensor.data)

\* the shard that ignores the rank: every rank takes row 0
sliced_first_row(tensor, tensor_parallel_rank, world_size) ==
    Select0(ReshapeRows(tensor, world_size), 0)

\* tensor.reshape(world_size, -1)[tensor_parallel_rank]
sliced(tensor, tensor_parallel_rank, world_size) ==
    Select0(ReshapeRows(tensor, world_size), tensor_parallel_rank)

\* the split along the last axis instead of the first
split_last_axis(combined, num_tensors) ==
    List(Chunk(combined, num_tensors, NDim(combined) - 1))

\* torch.chunk(combined_tensor, num_tensors, dim=0)
split(combined, num_tensors) == List(Chunk(combined, num_tensors, 0))

\* the last branch taken without its assertion: whatever is neither signal
\* nor allgather is handled as send_recv
is_send_recv_unasserted(communication_method) ==
    communication_method \notin {"signal", "allgather"}

\* assert communication_method == "send_recv"
is_send_recv(communication_method) == communication_method = "send_recv"

\* the transfer issued a second time, as by a send_recv branch that the
\* signal and allgather branches fall through to
Transfers_twice(r, name, peer, t) ==
    /\ Blocks(r, <<Prim(name, peer, Desc(t)), Prim(name, peer, Desc(t))>>)
    /\ buffer' = [buffer EXCEPT ![r] = t]

\* the rank enters torch.distributed.send or recv with tensor t and its peer
Transfers(r, name, peer, t) ==
    /\ Blocks(r, <<Prim(name, peer, Desc(t))>>)
    /\ buffer' = [buffer EXCEPT ![r] = t]

send_next_rank(r) ==
    /\ r \in DOMAIN pc /\ pc[r] = "idle" /\ prog[r].op = "send_next_rank"
    /\ LET combined == Cat(prog[r].input.items, 0)
           next == get_pipeline_model_parallel_next_rank(r)
       IN  /\ combined_tensor' = [combined_tensor EXCEPT ![r] = combined]
           /\ IF method = "signal"
              THEN Transfers(r, "send", next, first_element(combined))
              ELSE IF method = "allgather"
              THEN \* _send_next_rank_sliced
                   IF ~ReshapeRowsOK(combined, WorldSize)
                   THEN Fails(r, "RuntimeError") /\ UNCHANGED buffer
                   ELSE Transfers(r, "send", next,
                                  sliced(combined, get_tensor_model_parallel_rank(r),
                                         WorldSize))
              ELSE IF ~is_send_recv(method)
              THEN Fails(r, "AssertionError") /\ UNCHANGED buffer
              ELSE Transfers(r, "send", next, combined)
    /\ UNCHANGED <<topology, dict_state>>

\* the shape of the receiver's buffer: [sizes[0] * num_tensors] + sizes[1:]
combined_shape(num_tensors, sizes) == <<sizes[1] * num_tensors>> \o Tail(sizes)

recv_prev_rank(r) ==
    /\ r \in DOMAIN pc /\ pc[r] = "idle" /\ prog[r].op = "recv_prev_rank"
    /\ LET args == prog[r].input
           shape == combined_shape(args.num_tensors, args.sizes)
           combined == Empty(args.dtype, shape)
           prev == get_pipeline_model_parallel_prev_rank(r)
       IN  IF method = "signal"
           THEN /\ combined_tensor' = [combined_tensor EXCEPT ![r] = Ones(args.dtype, shape)]
                /\ Transfers(r, "recv", prev, first_element(Ones(args.dtype, shape)))
           ELSE IF method = "allgather"
           THEN \* _recv_next_rank_sliced
                /\ combined_tensor' = [combined_tensor EXCEPT ![r] = combined]
                /\ IF ~ReshapeRowsOK(combined, WorldSize)
                   THEN Fails(r, "RuntimeError") /\ UNCHANGED buffer
                   ELSE Transfers(r, "recv", prev,
                                  Empty(args.dtype, <<Numel(combined) \div WorldSize>>))
           ELSE /\ combined_tensor' = [combined_tensor EXCEPT ![r] = combined]
                /\ IF ~is_send_recv(method)
                   THEN Fails(r, "AssertionError") /\ UNCHANGED buffer
                   ELSE Transfers(r, "recv", prev, combined)
    /\ UNCHANGED <<topology, dict_state>>

\* A send and the recv that names it complete together: the receiver's
\* tensor takes the data sent.  recv_prev_rank then goes on to its return,
\* or, under allgather, into the all-gather of its tensor-parallel group.
p2p_done(s) ==
    /\ s \in DOMAIN pc /\ pc[s] = "blocked" /\ pending[s].prim = "send"
    /\ LET d == pending[s].root
       IN  /\ d \in DOMAIN pc /\ pc[d] = "blocked"
           /\ pending[d].prim = "recv" /\ pending[d].root = s
           /\ Numel(buffer[s]) = Numel(buffer[d])
           /\ LET got == Like(buffer[d], buffer[d].shape, buffer[s].data)
                  num == prog[d].input.num_tensors
                  into == combined_tensor[d]
                  whole == IF method = "signal"
                           THEN Like(into, into.shape, [into.data EXCEPT ![1] = got.data[1]])
                           ELSE IF method = "allgather" THEN into
                           ELSE Like(into, into.shape, got.data)
                  gather == Prim("all_gather_into_tensor", NoRoot, Desc(got))
              IN  /\ buffer' = [buffer EXCEPT ![d] = got]
                  /\ combined_tensor' = [combined_tensor EXCEPT ![d] = whole]
                  /\ pc' = [pc EXCEPT ![s] = "returned",
                                      ![d] = IF method = "allgather"
                                             THEN "blocked" ELSE "returned"]
                  /\ ret' = [ret EXCEPT ![d] = IF method = "allgather"
                                               THEN None ELSE split(whole, num)]
                  /\ pending' = [pending EXCEPT ![s] = NoPrim,
                                                ![d] = IF method = "allgather"
                                                       THEN gather ELSE NoPrim]
                  /\ log' = [log EXCEPT ![d] = IF method = "allgather"
                                               THEN Append(@, gather) ELSE @]
    /\ UNCHANGED <<topology, dict_state>>

\* the rows the ranks of the receiving stage received, in rank order
Rows == [i \in 1..WorldSize |-> buffer[Sorted(ReceivingGroup)[i]]]

\* all_gather_into_tensor(tensor, sliced) over the receiving stage, and
\* tensor.reshape(prev_shape)
sliced_all_gather_done ==
    /\ \A r \in ReceivingGroup :
          /\ pc[r] = "blocked"
          /\ pending[r].prim = "all_gather_into_tensor"
    /\ LET whole(r) == Reshape(Stacked(Rows), combined_tensor[r].shape)
       IN  /\ combined_tensor' = [r \in DOMAIN pc |->
                  IF r \in ReceivingGroup THEN whole(r) ELSE combined_tensor[r]]
           /\ ret' = [r \in DOMAIN pc |->
                  IF r \in ReceivingGroup
                  THEN split(whole(r), prog[r].input.num_tensors) ELSE ret[r]]
    /\ pc' = [r \in DOMAIN pc |-> IF r \in ReceivingGroup THEN "returned" ELSE pc[r]]
    /\ pending' = [r \in DOMAIN pc |-> IF r \in ReceivingGroup THEN NoPrim ELSE pending[r]]
    /\ UNCHANGED <<topology, dict_state, log, buffer>>

\* ------------------------------------------------------ the programs
\* contiguous ranges of global ranks
Groups == {lo..hi : lo \in Ranks, hi \in Ranks} \ {{}}

Shapes == UNION {[1..n -> 1..MaxDimSize] : n \in 1..MaxTensorRank}

\* the dims tried: the valid ones of every shape and one beyond on each side
Dims == (0 - MaxTensorRank - 1)..MaxTensorRank

\* rank r's input: every element of every rank is a value of its own
Labelled(r, shape) ==
    Tensor(shape, [k \in 1..Prod(shape) |-> r * Prod(shape) + k - 1])

Call(op, input, dim, root) == [op |-> op, input |-> input, dim |-> dim, root |-> root]

Key(i) == <<"k", i>>

ValueKinds == {"cuda_f32", "cuda_i64", "host_f32", "obj", "meta"}

\* the value under the i-th key
Value(i, kind) ==
    LET data(n) == [k \in 1..n |-> i * (MaxDimSize + 1) + k]
    IN  CASE kind = "cuda_f32" -> TensorOf("f32", TRUE, <<MaxDimSize>>, data(MaxDimSize))
          [] kind = "cuda_i64" -> TensorOf("i64", TRUE, <<1, MaxDimSize>>, data(MaxDimSize))
          [] kind = "host_f32" -> TensorOf("f32", FALSE, <<MaxDimSize>>, data(MaxDimSize))
          [] kind = "obj" -> Obj(<<"hello", i>>)
          [] kind = "meta" -> TensorMetadata("f32", <<MaxDimSize>>)

Dicts == UNION {{Dict([i \in 1..n |-> Item(Key(i), Value(i, c[i]))]) :
                    c \in [1..n -> ValueKinds]} : n \in 0..MaxKeys}

\* what the source may hand to broadcast_tensor_dict
SourceArgs == Dicts \cup {None, List(<<>>)}

ObjectList(r, n) == List([i \in 1..n |-> Obj(<<r, i>>)])

Programs ==
    {[r \in Ranks |-> Call("all_reduce", Labelled(r, sh), NoRoot, NoRoot)] :
        sh \in Shapes}
    \cup {[r \in Ranks |-> Call("all_gather", Labelled(r, c[1]), c[2], NoRoot)] :
        c \in Shapes \X Dims}
    \cup {[r \in Ranks |-> Call("gather", Labelled(r, c[1]), c[2], c[3])] :
        c \in Shapes \X Dims \X Ranks}
    \cup {[r \in Ranks |-> Call("broadcast", Labelled(r, c[1]), NoRoot, c[2])] :
        c \in Shapes \X Ranks}
    \cup {[r \in Ranks |-> Call("broadcast_object_list", ObjectList(r, c[1]), NoRoot, c[2])] :
        c \in (1..MaxKeys) \X Ranks}
    \cup {[r \in Ranks |->
            Call("broadcast_tensor_dict", IF r = c[2] THEN c[1] ELSE None, NoRoot, c[2])] :
        c \in SourceArgs \X Ranks}

Init ==
    /\ group \in Groups
    /\ prog \in Programs
    /\ customOK \in BOOLEAN
    /\ pyncclOn \in BOOLEAN
    /\ prog[0].op # "all_reduce" => ~customOK /\ ~pyncclOn
    /\ pc = [r \in Ranks |-> "idle"]
    /\ pending = [r \in Ranks |-> NoPrim]
    /\ log = [r \in Ranks |-> <<>>]
    /\ ret = [r \in Ranks |-> None]
    /\ obj_list = [r \in Ranks |-> <<>>]
    /\ tensor_dict = [r \in Ranks |-> None]
    /\ async_handles = [r \in Ranks |-> <<>>]
    /\ method = "send_recv"
    /\ buffer = [r \in Ranks |-> None]
    /\ combined_tensor = [r \in Ranks |-> None]
    /\ script = [r \in Ranks |-> NoScript]

Next ==
    \/ \E r \in Ranks : tensor_model_parallel_all_reduce(r)
    \/ all_reduce_done
    \/ \E r \in Ranks : tensor_model_parallel_all_gather(r)
    \/ all_gather_done
    \/ \E r \in Ranks : tensor_model_parallel_gather(r)
    \/ gather_done
    \/ \E r \in Ranks : gather_refused(r)
    \/ \E r \in Ranks : broadcast(r)
    \/ broadcast_done
    \/ \E r \in Ranks : broadcast_object_list(r)
    \/ object_list_done
    \/ \E r \in Ranks : broadcast_tensor_dict(r)
    \/ \E r \in Ranks : issue_broadcasts(r)
    \/ \E k \in 1..MaxKeys : async_broadcast_done(k)
    \/ \E r \in Ranks : wait_and_return(r)

Spec == Init /\ [][Next]_vars

\* ------------------------------------------- the pipeline's programs
\* the strategies, and a name that is none of them
Methods == {"send_recv", "signal", "allgather", "unknown"}

\* the axes after the leading one
Trailings == {<<>>} \cup {<<m>> : m \in 1..MaxDimSize}

\* the j-th tensor of a batch: every element of the batch a value of its own
BatchTensor(j, lead, trailing) ==
    Tensor(<<lead>> \o trailing,
           [k \in 1..lead * Prod(trailing) |-> j * MaxLead * MaxDimSize + k])

BatchRows(b) == SumSizes(b, 0, Len(b))

\* The batches: tensors that agree on every axis but the leading one, of as
\* many rows in all as a receiver buffer of num_tensors * sizes[0] rows holds.
Batches ==
    {b \in UNION {{[j \in 1..n |-> BatchTensor(j, c[1][j], c[2])] :
                      c \in [1..n -> 1..MaxLead] \X Trailings} : n \in 1..MaxBatch} :
        BatchRows(b) % Len(b) = 0}

\* what the receiver knows of the batch: num_tensors, sizes and dtype
RecvArgs(b) ==
    [kind |-> "recv_args", num_tensors |-> Len(b),
     sizes |-> <<BatchRows(b) \div Len(b)>> \o Tail(b[1].shape),
     dtype |-> b[1].dtype]

PipelineProgram(tp, b) ==
    [r \in 0..(2 * tp - 1) |->
        IF r < tp
        THEN Call("send_next_rank", List(b), NoRoot, NoRoot)
        ELSE Call("recv_prev_rank", RecvArgs(b), NoRoot, NoRoot)]

InitPP ==
    /\ group \in {0..(tp - 1) : tp \in 1..MaxTP}
    /\ method \in Methods
    /\ prog \in {PipelineProgram(WorldSize, b) : b \in Batches}
    /\ customOK = FALSE
    /\ pyncclOn = FALSE
    /\ pc = [r \in DOMAIN prog |-> "idle"]
    /\ pending = [r \in DOMAIN prog |-> NoPrim]
    /\ log = [r \in DOMAIN prog |-> <<>>]
    /\ ret = [r \in DOMAIN prog |-> None]
    /\ obj_list = [r \in DOMAIN prog |-> <<>>]
    /\ tensor_dict = [r \in DOMAIN prog |-> None]
    /\ async_handles = [r \in DOMAIN prog |-> <<>>]
    /\ buffer = [r \in DOMAIN prog |-> None]
    /\ combined_tensor = [r \in DOMAIN prog |-> None]
    /\ script = [r \in DOMAIN prog |-> NoScript]

NextPP ==
    \/ \E r \in 0..(2 * MaxTP - 1) : send_next_rank(r)
    \/ \E r \in 0..(2 * MaxTP - 1) : recv_prev_rank(r)
    \/ \E s \in 0..(2 * MaxTP - 1) : p2p_done(s)
    \/ sliced_all_gather_done

SpecPP == InitPP /\ [][NextPP]_vars

\* --------------------------------------------- successive calls
\* every rank's caller makes at most MaxCalls calls one after another
MaxCalls == 2

\* A rank that is in no call makes the next call of its script: the layer
\* keeps nothing of a call that has returned, so the call starts as a first
\* call does.  A call that raised ends the script.
next_call(r) ==
    /\ r \in DOMAIN pc /\ pc[r] = "returned"
    /\ script[r].next <= Len(script[r].calls)
    /\ prog' = [prog EXCEPT ![r] = script[r].calls[script[r].next]]
    /\ script' = [script EXCEPT ![r].next = @ + 1]
    /\ pc' = [pc EXCEPT ![r] = "idle"]
    /\ ret' = [ret EXCEPT ![r] = None]
    /\ UNCHANGED <<group, customOK, pyncclOn, method, pending, log,
                   dict_state, pp_state>>

\* before a rank's first call
NoCall == Call("none", None, NoRoot, NoRoot)

SeqsOf(S) == UNION {[1..n -> S] : n \in 0..MaxCalls}

CollectiveOps == {"all_reduce", "all_gather", "broadcast"}

\* rank r's call of the operation on the group g, with an input of its own
CollectiveCall(op, r, g) ==
    LET input == Labelled(r, <<MaxDimSize>>)
        first == CHOOSE a \in g : \A b \in g : a <= b
    IN  CASE op = "all_reduce" -> Call(op, input, NoRoot, NoRoot)
          [] op = "all_gather" -> Call(op, input, 0, NoRoot)
          [] op = "broadcast" -> Call(op, input, NoRoot, first)

\* every rank of a two-rank group with a sequence of collective calls of its
\* own: the same as its peer's, or one with a call left out or out of order
CollectiveScripts(g) ==
    {[r \in Ranks |->
        IF r \in g
        THEN Script([i \in 1..Len(c[r]) |-> CollectiveCall(c[r][i], r, g)])
        ELSE NoScript] : c \in [g -> SeqsOf(CollectiveOps)]}

\* the two batches a pipeline rank sends or expects: of one row, of two
TransferBatch(rows) == <<BatchTensor(1, rows, <<>>)>>

\* rank 0 with a sequence of sends to rank 1 and rank 1 with a sequence of
\* receives from rank 0, each a sequence of its own
TransferScripts ==
    {[r \in Ranks |->
        IF r = 0
        THEN Script([i \in 1..Len(c[1]) |->
                Call("send_next_rank", List(TransferBatch(c[1][i])), NoRoot, NoRoot)])
        ELSE IF r = 1
        THEN Script([i \in 1..Len(c[2]) |->
                Call("recv_prev_rank", RecvArgs(TransferBatch(c[2][i])), NoRoot, NoRoot)])
        ELSE NoScript] : c \in SeqsOf(1..2) \X SeqsOf(1..2)}

InitSeq ==
    /\ \/ /\ group \in {lo..(lo + 1) : lo \in 0..(MaxRank - 1)}
          /\ script \in CollectiveScripts(group)
       \/ /\ group = {0}
          /\ script \in TransferScripts
    /\ prog = [r \in Ranks |-> NoCall]
    /\ customOK = FALSE
    /\ pyncclOn = FALSE
    /\ method = "send_recv"
    /\ pc = [r \in Ranks |-> "returned"]
    /\ pending = [r \in Ranks |-> NoPrim]
    /\ log = [r \in Ranks |-> <<>>]
    /\ ret = [r \in Ranks |-> None]
    /\ obj_list = [r \in Ranks |-> <<>>]
    /\ tensor_dict = [r \in Ranks |-> None]
    /\ async_handles = [r \in Ranks |-> <<>>]
    /\ buffer = [r \in Ranks |-> None]
    /\ combined_tensor = [r \in Ranks |-> None]

NextSeq ==
    \/ \E r \in Ranks : next_call(r)
    \/ \E r \in Ranks : tensor_model_parallel_all_reduce(r)
    \/ all_reduce_done
    \/ \E r \in Ranks : tensor_model_parallel_all_gather(r)
    \/ all_gather_done
    \/ \E r \in Ranks : broadcast(r)
    \/ broadcast_done
    \/ \E r \in Ranks : send_next_rank(r)
    \/ \E r \in Ranks : recv_prev_rank(r)
    \/ \E s \in Ranks : p2p_done(s)

SpecSeq == InitSeq /\ [][NextSeq]_vars

\* ------------------------------------------- a chain of pipeline stages
\* a chain has at most MaxStages stages: a first, a last, and the middle ones
MaxStages == 4

\* the ranks of stage k, stage 0 being group: each stage is a tensor-parallel
\* group of WorldSize ranks, and a rank's next and previous pipeline ranks
\* are those of its tensor-parallel index in the stages beside its own
StageRanks(k) == {r + k * WorldSize : r \in group}

StageOf(r) == r \div WorldSize

\* the rows the ranks of stage k received, in rank order
StageRows(k) == [i \in 1..WorldSize |-> buffer[Sorted(StageRanks(k))[i]]]

\* all_gather_into_tensor(tensor, sliced) over the tensor-parallel group of
\* stage k, and tensor.reshape(prev_shape)
stage_all_gather_done(k) ==
    /\ \A r \in StageRanks(k) :
          /\ r \in DOMAIN pc /\ pc[r] = "blocked"
          /\ pending[r].prim = "all_gather_into_tensor"
    /\ LET whole(r) == Reshape(Stacked(StageRows(k)), combined_tensor[r].shape)
       IN  /\ combined_tensor' = [r \in DOMAIN pc |->
                  IF r \in StageRanks(k) THEN whole(r) ELSE combined_tensor[r]]
           /\ ret' = [r \in DOMAIN pc |->
                  IF r \in StageRanks(k)
                  THEN split(whole(r), prog[r].input.num_tensors) ELSE ret[r]]
    /\ pc' = [r \in DOMAIN pc |-> IF r \in StageRanks(k) THEN "returned" ELSE pc[r]]
    /\ pending' = [r \in DOMAIN pc |-> IF r \in StageRanks(k) THEN NoPrim ELSE pending[r]]
    /\ UNCHANGED <<topology, dict_state, log, buffer>>

\* the strategies get_pp_communication_method() is meant to give
Strategies == {"send_recv", "signal", "allgather"}

\* what the ranks of stage k of n are made to call: the first stage sends,
\* a middle stage receives and then sends, the last stage receives
StageCalls(k, n, b) ==
    LET send == Call("send_next_rank", List(b), NoRoot, NoRoot)
        recv == Call("recv_prev_rank", RecvArgs(b), NoRoot, NoRoot)
    IN  IF k = 0 THEN <<send>>
        ELSE IF k = n - 1 THEN <<recv>>
        ELSE <<recv, send>>

\* the chains: of three stages (the shortest with a middle one) of every
\* tensor-parallel size, and longer ones of single-rank stages
ChainShapes ==
    {c \in (3..MaxStages) \X (1..MaxTP) : c[1] = 3 \/ c[2] = 1}

ChainRanks == DOMAIN script

\* every rank of the chain is about to make the first call of its stage
InitChain ==
    /\ \E c \in ChainShapes :
          /\ group = 0..(c[2] - 1)
          /\ script \in {[r \in 0..(c[1] * c[2] - 1) |->
                            [Script(StageCalls(r \div c[2], c[1], TransferBatch(rows)))
                                EXCEPT !.next = 2]] : rows \in 1..MaxTP}
    /\ method \in Strategies
    /\ prog = [r \in ChainRanks |-> script[r].calls[1]]
    /\ customOK = FALSE
    /\ pyncclOn = FALSE
    /\ pc = [r \in ChainRanks |-> "idle"]
    /\ pending = [r \in ChainRanks |-> NoPrim]
    /\ log = [r \in ChainRanks |-> <<>>]
    /\ ret = [r \in ChainRanks |-> None]
    /\ obj_list = [r \in ChainRanks |-> <<>>]
    /\ tensor_dict = [r \in ChainRanks |-> None]
    /\ async_handles = [r \in ChainRanks |-> <<>>]
    /\ buffer = [r \in ChainRanks |-> None]
    /\ combined_tensor = [r \in ChainRanks |-> None]

NextChain ==
    \/ \E r \in 0..(MaxStages * MaxTP - 1) : next_call(r)
    \/ \E r \in 0..(MaxStages * MaxTP - 1) : send_next_rank(r)
    \/ \E r \in 0..(MaxStages * MaxTP - 1) : recv_prev_rank(r)
    \/ \E s \in 0..(MaxStages * MaxTP - 1) : p2p_done(s)
    \/ \E k \in 1..(MaxStages - 1) : stage_all_gather_done(k)

SpecChain == InitChain /\ [][NextChain]_vars

\* ------------------------------------------------------------ claims
BroadcastOps == {"broadcast", "broadcast_object_list", "broadcast_tensor_dict"}

Called(r) == r \in group /\ pc[r] # "idle"

Refused(r) ==
    pc[r] = "failed" /\ ret[r] = Error("InvalidArgument") /\ log[r] = <<>>

PassedThrough(r) ==
    pc[r] = "returned" /\ ret[r] = prog[r].input /\ log[r] = <<>>

\* C1 as stated: on a group of world size 1 every call of the six operations
\* returns its input unchanged, having issued no primitive and no backend.
C1_AlwaysIdentity ==
    \A r \in Ranks : Called(r) /\ WorldSize = 1 => PassedThrough(r)

\* C1, amended: on a group of world size 1 every call returns its input
\* unchanged, having issued no primitive and invoked no reduction backend,
\* provided that the src of a broadcast, broadcast_object_list or
\* broadcast_tensor_dict call is a member of the group.
C1_IdentityAtWorldSizeOne ==
    \A r \in Ranks :
        /\ Called(r) /\ WorldSize = 1
        /\ prog[r].op \in BroadcastOps => prog[r].root \in group
        => PassedThrough(r)

C1_Witness ==
    \E r \in Ranks :
        /\ WorldSize = 1 /\ pc[r] = "returned"
        /\ prog[r].op = "broadcast" /\ prog[r].root = r
        /\ ret[r] = prog[r].input /\ log[r] = <<>>

\* the reductions a rank's call had performed, in order: a decline is none
Performed(r) ==
    SelectSeq(log[r], LAMBDA p : p.prim \in ReducePrims /\ p.desc # <<"declined">>)

\* C2: an all-reduce on more than one rank has exactly one backend perform
\* the reduction: the custom kernel if it takes the tensor, else pynccl if
\* its flag is set, else torch.distributed.all_reduce; never two, never none.
C2_OneBackend ==
    \A r \in Ranks :
        Called(r) /\ prog[r].op = "all_reduce" /\ WorldSize > 1 =>
            /\ Len(Performed(r)) = 1
            /\ Performed(r)[1].prim =
                  IF customOK THEN "custom_all_reduce"
                  ELSE IF pyncclOn THEN "pynccl_utils.all_reduce"
                  ELSE "all_reduce"

C2_Witness ==
    \E r \in Ranks :
        /\ prog[r].op = "all_reduce" /\ WorldSize > 1 /\ pc[r] = "returned"
        /\ ~customOK /\ pyncclOn
        /\ Len(log[r]) = 2 /\ log[r][2].prim = "pynccl_utils.all_reduce"

\* C3: for a valid dim of either sign and a world size N > 1, all-gather
\* returns a tensor with as many axes as the input and N times its size along
\* dim, whose N equal slices along dim are the ranks' inputs in rank order.
C3_AllGatherRoundTrip ==
    \A r \in Ranks :
        Called(r) /\ prog[r].op = "all_gather" /\ WorldSize > 1 /\ pc[r] = "returned" =>
            LET t == prog[r].input
                d == IF prog[r].dim < 0 THEN prog[r].dim + NDim(t) ELSE prog[r].dim
            IN  /\ ret[r].shape = [t.shape EXCEPT ![d + 1] = WorldSize * @]
                /\ Chunk(ret[r], WorldSize, d) = Inputs

C3_Witness ==
    \E r \in Ranks :
        /\ prog[r].op = "all_gather" /\ WorldSize > 1 /\ pc[r] = "returned"
        /\ prog[r].dim = 0 - 1
        /\ NDim(prog[r].input) = 2 /\ prog[r].input.shape[1] > 1
        /\ Chunk(ret[r], WorldSize, 1) = Inputs

\* C4: a gather on more than one rank with a member dst and a valid dim
\* raises nowhere, returns None on every rank but dst, and returns on dst the
\* concatenation along dim of the ranks' inputs in rank order.
C4_GatherOnlyAtDst ==
    \A r \in Ranks :
        Called(r) /\ prog[r].op = "gather" /\ WorldSize > 1 /\ prog[r].root \in group =>
            LET t == prog[r].input
                d == IF prog[r].dim < 0 THEN prog[r].dim + NDim(t) ELSE prog[r].dim
            IN  /\ pc[r] = "failed" => ~(-NDim(t) <= prog[r].dim /\ prog[r].dim < NDim(t))
                /\ pc[r] = "returned" /\ r # prog[r].root => ret[r] = None
                /\ pc[r] = "returned" /\ r = prog[r].root =>
                      /\ ret[r] # None
                      /\ ret[r].shape = [t.shape EXCEPT ![d + 1] = WorldSize * @]
                      /\ Chunk(ret[r], WorldSize, d) = Inputs

C4_Witness ==
    \E r, q \in Ranks :
        /\ prog[r].op = "gather" /\ WorldSize > 1
        /\ r \in group /\ q \in group /\ r # q /\ prog[r].root = r
        /\ pc[r] = "returned" /\ pc[q] = "returned"
        /\ NDim(prog[r].input) = 2 /\ prog[r].dim = 1
        /\ ret[r] # None /\ ret[q] = None

InvalidDim(r) ==
    ~(-NDim(prog[r].input) <= prog[r].dim /\ prog[r].dim < NDim(prog[r].input))

\* C8 as stated: all-gather and gather refuse a dim outside
\* -rank(tensor) <= dim < rank(tensor) with InvalidArgument and without a
\* primitive, for every world size.
C8_AlwaysRefused ==
    \A r \in Ranks :
        Called(r) /\ prog[r].op \in {"all_gather", "gather"} /\ InvalidDim(r) =>
            Refused(r)

\* C8, amended: all-gather and gather refuse a dim outside
\* -rank(tensor) <= dim < rank(tensor) with InvalidArgument and without a
\* primitive, for every world size above 1 (a single-rank group returns the
\* input before dim is looked at).
C8_RefusedAboveOne ==
    \A r \in Ranks :
        /\ Called(r) /\ prog[r].op \in {"all_gather", "gather"} /\ InvalidDim(r)
        /\ WorldSize > 1
        => Refused(r)

C8_Witness ==
    \E r \in Ranks :
        /\ r \in group /\ WorldSize > 1 /\ prog[r].op = "all_gather"
        /\ prog[r].dim = NDim(prog[r].input)
        /\ Refused(r)

\* C9: broadcast, broadcast_object_list and broadcast_tensor_dict refuse a
\* src outside the group with InvalidArgument before any primitive, on a
\* single-rank group too.
C9_SrcChecked ==
    \A r \in Ranks :
        Called(r) /\ prog[r].op \in BroadcastOps /\ prog[r].root \notin group =>
            Refused(r)

C9_Witness ==
    \E r \in Ranks :
        /\ r \in group /\ WorldSize = 1 /\ prog[r].op = "broadcast"
        /\ prog[r].root \notin group
        /\ Refused(r)

\* C10 as stated, on a group of more than one rank: gather refuses a dst
\* outside the tensor-parallel group with InvalidArgument before any primitive.
C10_DstChecked ==
    \A r \in Ranks :
        /\ Called(r) /\ prog[r].op = "gather" /\ prog[r].root \notin group
        /\ WorldSize > 1
        => Refused(r)
\* ------------------------------------------- claims on the pipeline
Senders == group

Receivers == ReceivingGroup

\* the batch every rank of the sending stage was given
Batch == prog[0].input.items

\* C6: under allgather, with one combined buffer on every rank of the sending
\* stage, every rank of the receiving stage that returns has rebuilt that
\* buffer exactly, row i of it being the shard the sender of tensor-parallel
\* rank i sent.
C6_AllGatherRebuilds ==
    \A r \in Receivers :
        method = "allgather" /\ pc[r] = "returned" =>
            /\ combined_tensor[r] = Cat(Batch, 0)
            /\ \A i \in Senders :
                  /\ pc[i] = "returned"
                  /\ SubSeq(combined_tensor[r].data,
                            i * Numel(buffer[i]) + 1, (i + 1) * Numel(buffer[i]))
                        = buffer[i].data

C6_Witness ==
    \E r \in Receivers :
        /\ method = "allgather" /\ WorldSize = 2 /\ pc[r] = "returned"
        /\ Len(Batch) = 2 /\ NDim(Batch[1]) = 2
        /\ combined_tensor[r] = Cat(Batch, 0)
        /\ buffer[0] # buffer[1]

\* C7 as stated: under send_recv, for every batch whose tensors share dtype,
\* device and every axis but possibly the leading one, the receiver returns
\* num_tensors tensors, the i-th equal to the i-th tensor sent.
C7_AnyBatchSplitsBack ==
    \A r \in Receivers :
        method = "send_recv" /\ pc[r] = "returned" => ret[r].items = Batch

\* C7, amended: under send_recv, for every batch whose tensors all have the
\* shape sizes that the receiver is given (the leading axis too), the
\* receiver returns num_tensors tensors, the i-th equal to the i-th sent.
C7_EqualShapesSplitBack ==
    \A r \in Receivers :
        /\ method = "send_recv" /\ pc[r] = "returned"
        /\ \A j \in 1..Len(Batch) : Batch[j].shape = prog[r].input.sizes
        => /\ Len(ret[r].items) = prog[r].input.num_tensors
           /\ ret[r].items = Batch

C7_Witness ==
    \E r \in Receivers :
        /\ method = "send_recv" /\ pc[r] = "returned"
        /\ Len(Batch) = 2 /\ Batch[1].shape = <<2, 2>> /\ Batch[2].shape = <<2, 2>>
        /\ ret[r].items = Batch

\* ------------------------------------- claims on broadcast_tensor_dict
DictCall(r) == Called(r) /\ prog[r].op = "broadcast_tensor_dict" /\ WorldSize > 1

IsSource(r) == r = prog[r].root

NotMapping(d) == d.kind # "dict"

HostTensor(d) ==
    d.kind = "dict" /\ \E i \in 1..Len(d.items) :
        d.items[i].val.kind = "tensor" /\ ~d.items[i].val.cuda

\* C11: on the source rank of a broadcast_tensor_dict call on more than one
\* rank, an argument that is no dict, or a dict with a tensor that is not on
\* cuda, makes the call fail with InvalidArgument having issued neither the
\* metadata broadcast nor any tensor broadcast.
C11_SourceRefusedSilently ==
    \A r \in Ranks :
        /\ DictCall(r) /\ IsSource(r)
        /\ NotMapping(prog[r].input) \/ HostTensor(prog[r].input)
        => Refused(r) /\ async_handles[r] = <<>>

C11_Witness ==
    \E r \in Ranks :
        /\ DictCall(r) /\ IsSource(r) /\ Refused(r)
        /\ prog[r].input.kind = "dict" /\ Len(prog[r].input.items) = 2
        /\ prog[r].input.items[1].val.kind = "tensor" /\ prog[r].input.items[1].val.cuda
        /\ prog[r].input.items[2].val.kind = "tensor" /\ ~prog[r].input.items[2].val.cuda

\* --------------------------------- claims on the pipeline's strategies
PeerOf(r) == IF r \in Senders THEN r + WorldSize ELSE r - WorldSize

\* the primitives of the name a rank's call has issued
Issued(r, name) == SelectSeq(log[r], LAMBDA p : p.prim = name)

Scalar(t) == t.shape = <<>> /\ Len(t.data) = 1

\* C12: under signal a send_next_rank call issues one send, of the first
\* element of the flattened combined buffer and of nothing else; the
\* recv_prev_rank call it is paired with issues one recv of one element,
\* returns only once the sender has issued that send, and holds after it the
\* element sent and none of the other elements of the payload.
C12_SignalHandshake ==
    method = "signal" =>
        /\ \A s \in Senders : pc[s] # "idle" =>
              /\ log[s] = <<Prim("send", PeerOf(s), <<Batch[1].dtype, <<>>>>)>>
              /\ Scalar(buffer[s])
              /\ buffer[s].data[1] = Cat(Batch, 0).data[1]
        /\ \A r \in Receivers : pc[r] # "idle" =>
              /\ log[r] = <<Prim("recv", PeerOf(r), <<Batch[1].dtype, <<>>>>)>>
              /\ Scalar(buffer[r])
              /\ pc[r] = "returned" =>
                    /\ Len(Issued(PeerOf(r), "send")) = 1
                    /\ pc[PeerOf(r)] = "returned"
                    /\ buffer[r].data = buffer[PeerOf(r)].data
                    /\ \A k \in 2..Numel(combined_tensor[r]) :
                          combined_tensor[r].data[k] = 1

C12_Witness ==
    \E r \in Receivers :
        /\ method = "signal" /\ pc[r] = "returned"
        /\ Numel(Cat(Batch, 0)) > 2
        /\ buffer[r].data = <<Cat(Batch, 0).data[1]>>
        /\ combined_tensor[r].data[1] = Cat(Batch, 0).data[1]
        /\ combined_tensor[r].data[2] = 1

\* the dict the source of r's call was given
SourceDict(r) == prog[prog[r].root].input

\* the tensor entries of a dict, in the dict's order
TensorEntries(d) == SelectSeq(d.items, LAMBDA it : it.val.kind = "tensor")

\* one broadcast from src per tensor entry of d, in d's order
TensorBroadcasts(src, d) ==
    [k \in 1..Len(TensorEntries(d)) |->
        Prim("broadcast", src, Desc(TensorEntries(d)[k].val))]

\* C13 as stated: in a broadcast_tensor_dict call on more than one rank, a
\* rank's first primitive is its one broadcast_object_list of the metadata,
\* complete before the rank issues a tensor broadcast; and the tensor
\* broadcasts a rank has issued once it is past issuing them are one per
\* tensor entry of the source's dict, in the dict's order and of the entry's
\* dtype and shape, on the source and on every receiver alike.
C13_MetadataThenTensors ==
    \A r \in Ranks :
        DictCall(r) /\ log[r] # <<>> =>
            /\ log[r][1].prim = "broadcast_object_list"
            /\ Len(Issued(r, "broadcast_object_list")) = 1
            /\ Issued(r, "broadcast") # <<>> => obj_list[r][1] = obj_list[prog[r].root][1]
            /\ pc[r] \in {"wait", "returned"} =>
                  Issued(r, "broadcast") = TensorBroadcasts(prog[r].root, SourceDict(r))

\* every rank of the group calls broadcast_tensor_dict with a member src, and
\* the source with a dict whose tensors are all on cuda
ValidDictProgram ==
    /\ WorldSize > 1
    /\ \A r \in group :
          /\ prog[r].op = "broadcast_tensor_dict" /\ prog[r].root \in group
          /\ ~NotMapping(SourceDict(r)) /\ ~HostTensor(SourceDict(r))

Joined(r) == \A k \in 1..Len(async_handles[r]) : async_handles[r][k].state = "done"

\* C14 as stated, for calls that pass the source's validation: a rank that
\* has returned from broadcast_tensor_dict has no async broadcast of the call
\* still in flight, and once every rank of the group makes the call it
\* returns on all of them: the ranks cannot come to rest (no rank able to
\* take a step, no primitive able to complete) before all have returned.
C14_JoinedAndReturns ==
    /\ \A r \in Ranks : DictCall(r) /\ pc[r] = "returned" => Joined(r)
    /\ ValidDictProgram => (\A r \in group : pc[r] = "returned") \/ ENABLED Next

\* the source of the group's broadcast_tensor_dict calls is given an
\* argument that its validation turns down
SourceInvalid ==
    /\ WorldSize > 1
    /\ \A r \in group :
          /\ prog[r].op = "broadcast_tensor_dict" /\ prog[r].root \in group
          /\ NotMapping(SourceDict(r)) \/ HostTensor(SourceDict(r))

InMetadataReceive(r) ==
    /\ pc[r] = "blocked" /\ pending[r].prim = "broadcast_object_list"
    /\ obj_list[r] = <<None>> /\ ret[r] = None

\* C15: when the source's broadcast_tensor_dict call fails its validation,
\* every other rank of the group that has entered the call is blocked in the
\* receive of the metadata and stays there: it has returned nothing, and
\* once all of them are in, no step of any rank and no completion of any
\* primitive is possible any more.
C15_PeersStayBlocked ==
    SourceInvalid =>
        /\ \A r \in group : IsSource(r) => pc[r] \in {"idle", "failed"}
        /\ \A r \in group : ~IsSource(r) => pc[r] = "idle" \/ InMetadataReceive(r)
        /\ (\A r \in group : pc[r] # "idle") => ~ENABLED Next

C15_Witness ==
    /\ SourceInvalid /\ WorldSize = 3
    /\ HostTensor(SourceDict(0))
    /\ \A r \in group : IF IsSource(r) THEN Refused(r) ELSE InMetadataReceive(r)
    /\ ~ENABLED Next

\* the senders that have issued their send
Sent == {s \in Senders : pc[s] \in {"blocked", "returned"}}

\* the elements a sender has put on the link to the next stage
OnTheWire(s) == {buffer[s].data[k] : k \in 1..Numel(buffer[s])}

RECURSIVE Traffic(_)
Traffic(S) ==
    IF S = {} THEN 0
    ELSE LET s == CHOOSE x \in S : TRUE
         IN  Numel(buffer[s]) + Traffic(S \ {s})

\* C17: under allgather the sender of tensor-parallel rank r sends row r of
\* the combined buffer reshaped to [world_size, total / world_size], in one
\* send: the shards of two senders share no element, the shards of all the
\* senders are the whole buffer, each has total / world_size elements, and
\* the elements sent to the next stage are total in all, where under
\* send_recv every sender sends the whole buffer, world_size * total in all.
C17_DisjointShards ==
    LET combined == Cat(Batch, 0)
        total == Numel(combined)
        size == total \div WorldSize
    IN  /\ method = "allgather" =>
              /\ \A s \in Sent :
                    /\ total = WorldSize * size
                    /\ Len(Issued(s, "send")) = 1
                    /\ buffer[s].shape = <<size>>
                    /\ buffer[s].data = SubSeq(combined.data, s * size + 1, (s + 1) * size)
              /\ \A s, t \in Sent : s # t => OnTheWire(s) \cap OnTheWire(t) = {}
              /\ Sent = Senders =>
                    /\ UNION {OnTheWire(s) : s \in Senders}
                          = {combined.data[k] : k \in 1..total}
                    /\ Traffic(Senders) = total
        /\ method = "send_recv" /\ Sent = Senders =>
              /\ \A s \in Senders : buffer[s] = combined
              /\ Traffic(Senders) = WorldSize * total

C17_Witness ==
    /\ method = "allgather" /\ WorldSize = 2 /\ Sent = Senders
    /\ Numel(Cat(Batch, 0)) > 2
    /\ Traffic(Senders) = Numel(Cat(Batch, 0))
    /\ OnTheWire(0) # OnTheWire(1)
    /\ \A s \in Senders : pc[s] = "returned"

\* C19: when get_pp_communication_method() gives none of send_recv, signal
\* and allgather, a send_next_rank call and a recv_prev_rank call both fail
\* with an AssertionError, having issued no send, no recv and no all-gather.
C19_UnknownStrategyAsserts ==
    method \notin Strategies =>
        \A r \in DOMAIN pc : pc[r] # "idle" =>
            /\ pc[r] = "failed" /\ ret[r] = Error("AssertionError")
            /\ log[r] = <<>> /\ pending[r] = NoPrim /\ buffer[r] = None

C19_Witness ==
    /\ method = "unknown" /\ WorldSize = 2
    /\ \A r \in DOMAIN pc :
          pc[r] = "failed" /\ ret[r] = Error("AssertionError") /\ log[r] = <<>>
    /\ prog[0].op = "send_next_rank" /\ prog[2].op = "recv_prev_rank"

\* C20: under allgather, when the number of elements of the combined buffer
\* is no multiple of the tensor-parallel world size, send_next_rank fails in
\* the reshape before its send, and recv_prev_rank fails in the reshape
\* before its recv and before the all-gather: no shard is sent, received or
\* gathered.
C20_NonDivisibleFailsFirst ==
    method = "allgather" /\ Numel(Cat(Batch, 0)) % WorldSize # 0 =>
        \A r \in DOMAIN pc : pc[r] # "idle" =>
            /\ pc[r] = "failed" /\ ret[r] = Error("RuntimeError")
            /\ log[r] = <<>> /\ pending[r] = NoPrim /\ buffer[r] = None

C20_Witness ==
    /\ method = "allgather" /\ WorldSize = 2
    /\ Numel(Cat(Batch, 0)) = 3
    /\ \A r \in DOMAIN pc :
          pc[r] = "failed" /\ ret[r] = Error("RuntimeError") /\ log[r] = <<>>
    /\ prog[1].op = "send_next_rank" /\ prog[3].op = "recv_prev_rank"

\* ------------------------------------------ claims on successive calls
\* the ranks that call on one group: the tensor-parallel group, or the
\* sending rank 0 and the receiving rank 1 of a pipeline group
Parties == IF WorldSize = 1 THEN {0, 1} ELSE group

\* two ranks' calls are the two sides of one operation
Agree(a, b) ==
    \/ /\ a.op \in CollectiveOps /\ a.op = b.op
       /\ a.dim = b.dim /\ a.root = b.root /\ Desc(a.input) = Desc(b.input)
    \/ /\ a.op = "send_next_rank" /\ b.op = "recv_prev_rank"
       /\ b.input = RecvArgs(a.input.items)
    \/ /\ a.op = "recv_prev_rank" /\ b.op = "send_next_rank"
       /\ a.input = RecvArgs(b.input.items)

\* the k-th calls of the parties are there and agree
Aligned(k) ==
    /\ \A r \in Parties : Len(script[r].calls) >= k
    /\ \A r, q \in Parties : r # q => Agree(script[r].calls[k], script[q].calls[k])

\* the first index at which some party omits a call or makes another one
FirstDivergence ==
    CHOOSE k \in 1..(MaxCalls + 1) :
        ~Aligned(k) /\ \A j \in 1..(k - 1) : Aligned(j)

EnteredCalls(r) ==
    IF pc[r] = "idle" THEN script[r].next - 2 ELSE script[r].next - 1

ReturnedCalls(r) ==
    IF pc[r] = "returned" THEN script[r].next - 1 ELSE script[r].next - 2

\* the primitives and backends one call of the operation invokes
PrimitivesOf(op) ==
    CASE op = "all_reduce" -> <<"custom_all_reduce", "all_reduce">>
      [] op = "all_gather" -> <<"all_gather_into_tensor">>
      [] op = "broadcast" -> <<"broadcast">>
      [] op = "send_next_rank" -> <<"send">>
      [] op = "recv_prev_rank" -> <<"recv">>

RECURSIVE InProgramOrder(_, _)
InProgramOrder(r, n) ==
    IF n = 0 THEN <<>>
    ELSE InProgramOrder(r, n - 1) \o PrimitivesOf(script[r].calls[n].op)

\* C16: a rank has issued the primitives of the calls it has entered, those
\* and no others, in the order of its caller's calls; and from the first
\* call that a party of the group omits or makes out of order, no party
\* returns from that call or from a later one, and none is given an error.
C16_ProgramOrderOrStall ==
    \A r \in Parties :
        /\ [i \in 1..Len(log[r]) |-> log[r][i].prim] = InProgramOrder(r, EnteredCalls(r))
        /\ ReturnedCalls(r) < FirstDivergence
        /\ pc[r] # "failed"

C16_Witness ==
    \E r, q \in group :
        /\ WorldSize = 2
        /\ Len(script[r].calls) = 2 /\ Len(script[q].calls) = 2
        /\ [i \in 1..2 |-> script[r].calls[i].op] = <<"all_reduce", "all_gather">>
        /\ [i \in 1..2 |-> script[q].calls[i].op] = <<"all_gather", "all_reduce">>
        /\ pc[r] = "blocked" /\ pending[r].prim = "all_reduce"
        /\ pc[q] = "blocked" /\ pending[q].prim = "all_gather_into_tensor"
        /\ ~ENABLED NextSeq

\* ------------------------------------------------ claims on the chain
\* the batch every stage of the chain passes on
ChainBatch == script[0].calls[1].input.items

\* the calls of the operation among those the rank has entered
EnteredOf(r, op) ==
    SelectSeq(SubSeq(script[r].calls, 1, EnteredCalls(r)), LAMBDA c : c.op = op)

\* the rank has issued one send to its next pipeline rank for every
\* send_next_rank call it has entered, and one recv from its previous
\* pipeline rank for every recv_prev_rank call
OneTransferEach(r) ==
    /\ Len(Issued(r, "send")) = Len(EnteredOf(r, "send_next_rank"))
    /\ Len(Issued(r, "recv")) = Len(EnteredOf(r, "recv_prev_rank"))
    /\ \A i \in 1..Len(log[r]) :
          /\ log[r][i].prim = "send" => log[r][i].root = r + WorldSize
          /\ log[r][i].prim = "recv" => log[r][i].root = r - WorldSize

AllReturned ==
    \A r \in DOMAIN pc :
        pc[r] = "returned" /\ script[r].next > Len(script[r].calls)

\* no rank is about to run on by itself: each is blocked in a primitive, has
\* raised, or has returned from the last of its calls
AtRest ==
    \A r \in DOMAIN pc :
        \/ pc[r] \in {"blocked", "failed"}
        \/ pc[r] = "returned" /\ script[r].next > Len(script[r].calls)

ChainProgresses ==
    /\ \A r \in DOMAIN pc : OneTransferEach(r)
    /\ AtRest => AllReturned \/ ENABLED NextChain

\* C18 as stated: under each of the three strategies every send_next_rank
\* call issues one send to the next pipeline rank and every recv_prev_rank
\* call one recv from the previous one, and the chain in which the first
\* stage sends, the middle stages receive and then send and the last stage
\* receives cannot come to rest before every call of every rank has
\* returned: when the ranks are all blocked or through, some primitive that
\* they are blocked in completes.
C18_AnyChainReturns == ChainProgresses

\* C18, amended: the same, provided that under allgather the number of
\* elements of the combined buffer is a multiple of the tensor-parallel
\* world size (otherwise the calls raise in the reshape and issue nothing).
C18_DivisibleChainReturns ==
    (method = "allgather" => Numel(Cat(ChainBatch, 0)) % WorldSize = 0)
        => ChainProgresses

C18_Witness ==
    /\ method = "allgather" /\ WorldSize = 2 /\ AllReturned
    /\ \E r \in StageRanks(1) :
          [i \in 1..Len(log[r]) |-> log[r][i].prim]
              = <<"recv", "all_gather_into_tensor", "send">>
====
